---- MODULE Spec2Model ----
(***************************************************************************)
(* Model of scrap.py (deploy.py): package a handler file, create-or-update *)
(* a serverless function, grant the storage service permission to invoke   *)
(* it, and register an object-created trigger on a bucket.                 *)
(*                                                                         *)
(* Python dicts are TLA+ functions with a finite domain of string keys, so *)
(* a missing key is a key outside DOMAIN.  The provider (the function      *)
(* service and the object storage service) is the environment: each API    *)
(* call is answered either according to the provider's state or by an      *)
(* error of the provider's choosing.                                       *)
(***************************************************************************)
EXTENDS Integers, Sequences, FiniteSets, TLC

VARIABLES
    functions,  \* provider: function name -> function record (a dict)
    policy,     \* provider: function name -> set of permission statements
    notif,      \* provider: bucket name -> notification configuration
    call,       \* the last function call made and what came of it
    calls,      \* the provider API calls issued by the last call / run, in order
    pc,         \* main: position of the run
    margs,      \* main: the parsed command line of the run
    mloc,       \* main: local variables (code_zip, env, lambda_arn)
    out,        \* main: exit status and printed lines
    pre,        \* main: provider state when the run started
    cpc,        \* concurrent runs: position of each run
    cargs,      \* concurrent runs: lambda_arn, prefix, suffix of each run
    ccfg,       \* concurrent runs: the configuration each run has read
    corder      \* concurrent runs: the get/put calls in the order they happened

vars == <<functions, policy, notif, call, calls, pc, margs, mloc, out, pre,
          cpc, cargs, ccfg, corder>>

-----------------------------------------------------------------------------
(* Values *)

None == "None"
EmptyDict == <<>>

\* Python truthiness of an optional string argument: None and "" are falsy.
Truthy(s) == s # None /\ s # ""

DictGet(d, k, default) == IF k \in DOMAIN d THEN d[k] ELSE default
DictPut(d, k, v) == [x \in DOMAIN d \cup {k} |-> IF x = k THEN v ELSE d[x]]
DictDel(d, k) == [x \in DOMAIN d \ {k} |-> d[x]]

\* Input domains.
FnNames == {"f1"}
Roles == {"r1", "r2"}
Buckets == {"b1", "b2"}
Prefixes == {None, "", "in/"}
Suffixes == {None, ".csv"}
SnsArgs == {None, "t1"}
SlackArgs == {None, "hook"}

\* The local file system: path -> content.
FileSystem == ("lambda_function.py" :> "c1") @@ ("alt.py" :> "c2")

\* Program constants.
Timeout == 30
MemorySize == 256
Runtime == "python3.12"
Handler == "lambda_function.lambda_handler"
DefaultArcname == "lambda_function.py"
DefaultStatementId == "AllowS3Invoke"
InvokeAction == "lambda:InvokeFunction"
S3Principal == "s3.amazonaws.com"
ObjectCreated == <<"s3:ObjectCreated:*">>

\* Provider error codes.
NoError == "none"
NotFound == "ResourceNotFoundException"
Conflict == "ResourceConflictException"
OtherError == "AccessDeniedException"

FunctionArn(name) == "arn:aws:lambda:" \o name
BucketArn(bucket) == "arn:aws:s3:::" \o bucket

ApiCall(api, err) == [api |-> api, err |-> err]
ApiNames(log) == [i \in 1..Len(log) |-> log[i].api]
Count(log, api) == Cardinality({i \in 1..Len(log) : log[i].api = api})

-----------------------------------------------------------------------------
(* zip_bytes: an archive is a dict from entry name to content. *)

ZipBytes(file_path, arcname) == DictPut(EmptyDict, arcname, FileSystem[file_path])

-----------------------------------------------------------------------------
(* The function service.  L is [functions, policy].  ans is the provider's *)
(* answer: "ok" (according to its state), "fault" (some other error), and  *)
(* for the configuration update "vanished" (another actor deleted the      *)
(* function after the code update).                                        *)

LambdaApiResult(L, err, resp) == [L |-> L, err |-> err, resp |-> resp]

DeleteFunction(L, name) ==
    [functions |-> DictDel(L.functions, name), policy |-> DictDel(L.policy, name)]

UpdateFunctionCode(L, name, zip, ans) ==
    IF ans = "fault" THEN LambdaApiResult(L, OtherError, EmptyDict)
    ELSE IF name \notin DOMAIN L.functions THEN LambdaApiResult(L, NotFound, EmptyDict)
    ELSE LambdaApiResult([L EXCEPT !.functions[name].Code = zip], NoError,
                         [FunctionArn |-> FunctionArn(name)])

\* The configuration is replaced by the one given; an Environment without a
\* Variables mapping gives the function no variables, as on creation.
UpdateFunctionConfiguration(L, name, handler, runtime, role, timeout, memory, environment, ans) ==
    LET L0 == IF ans = "vanished" THEN DeleteFunction(L, name) ELSE L
    IN  IF ans = "fault" THEN LambdaApiResult(L0, OtherError, EmptyDict)
        ELSE IF name \notin DOMAIN L0.functions
             THEN LambdaApiResult(L0, NotFound, EmptyDict)
        ELSE LET old == L0.functions[name]
                 variables == DictGet(environment, "Variables", EmptyDict)
                 new == [old EXCEPT !.Handler = handler, !.Runtime = runtime,
                                    !.Role = role, !.Timeout = timeout,
                                    !.MemorySize = memory, !.Variables = variables]
             IN  LambdaApiResult([L0 EXCEPT !.functions[name] = new], NoError,
                                 [FunctionArn |-> FunctionArn(name)])

CreateFunction(L, name, runtime, role, handler, code, timeout, memory, environment, ans) ==
    IF ans = "fault" THEN LambdaApiResult(L, OtherError, EmptyDict)
    ELSE IF name \in DOMAIN L.functions THEN LambdaApiResult(L, Conflict, EmptyDict)
    ELSE LET new == [Runtime |-> runtime, Role |-> role, Handler |-> handler,
                     Code |-> code.ZipFile, Timeout |-> timeout,
                     MemorySize |-> memory,
                     Variables |-> DictGet(environment, "Variables", EmptyDict)]
         IN  LambdaApiResult([functions |-> DictPut(L.functions, name, new),
                              policy |-> DictPut(L.policy, name, {})],
                             NoError, [FunctionArn |-> FunctionArn(name)])

AddPermission(L, name, sid, action, principal, source_arn, ans) ==
    IF ans = "fault" THEN LambdaApiResult(L, OtherError, EmptyDict)
    ELSE IF name \notin DOMAIN L.functions THEN LambdaApiResult(L, NotFound, EmptyDict)
    ELSE IF \E s \in L.policy[name] : s.Sid = sid
         THEN LambdaApiResult(L, Conflict, EmptyDict)
    ELSE LET st == [Sid |-> sid, Action |-> action, Principal |-> principal,
                    SourceArn |-> source_arn]
         IN  LambdaApiResult([L EXCEPT !.policy[name] = @ \cup {st}], NoError,
                             [Statement |-> st])

-----------------------------------------------------------------------------
(* upsert_lambda *)

\* Environment={"Variables": env} if env else {}
EnvironmentDropped(env) == EmptyDict
EnvironmentParam(env) == IF env # EmptyDict THEN [Variables |-> env] ELSE EmptyDict

Returned(L, log, ret) ==
    [L |-> L, calls |-> log, outcome |-> "returned", ret |-> ret, error |-> NoError]
Raised(L, log, err) ==
    [L |-> L, calls |-> log, outcome |-> "raised", ret |-> None, error |-> err]

\* except ClientError: re-raise unless the code is ResourceNotFoundException.
ReraiseNever(err) == FALSE
ReraiseTest(err) == err # NotFound

\* The except block of upsert_lambda.
UpsertExcept(L, log, err, function_name, role_arn, zip, env, ans) ==
    IF ReraiseTest(err) THEN Raised(L, log, err)
    ELSE LET r == CreateFunction(L, function_name, Runtime, role_arn, Handler,
                                 [ZipFile |-> zip], Timeout, MemorySize,
                                 EnvironmentParam(env), ans.create)
             log2 == Append(log, ApiCall("create_function", r.err))
         IN  IF r.err = NoError THEN Returned(r.L, log2, r.resp.FunctionArn)
             ELSE Raised(r.L, log2, r.err)

\* upsert_lambda without the configuration update.
UpsertCodeOnly(L, function_name, role_arn, zip, region, env, ans) ==
    LET r1 == UpdateFunctionCode(L, function_name, zip, ans.code)
        log1 == <<ApiCall("update_function_code", r1.err)>>
    IN  IF r1.err # NoError
        THEN UpsertExcept(r1.L, log1, r1.err, function_name, role_arn, zip, env, ans)
        ELSE Returned(r1.L, log1, r1.resp.FunctionArn)

UpsertLambda(L, function_name, role_arn, zip, region, env, ans) ==
    LET r1 == UpdateFunctionCode(L, function_name, zip, ans.code)
        log1 == <<ApiCall("update_function_code", r1.err)>>
    IN  IF r1.err # NoError
        THEN UpsertExcept(r1.L, log1, r1.err, function_name, role_arn, zip, env, ans)
        ELSE LET r2 == UpdateFunctionConfiguration(r1.L, function_name, Handler,
                           Runtime, role_arn, Timeout, MemorySize,
                           EnvironmentParam(env), ans.config)
                 log2 == Append(log1, ApiCall("update_function_configuration", r2.err))
             IN  IF r2.err # NoError
                 THEN UpsertExcept(r2.L, log2, r2.err, function_name, role_arn,
                                   zip, env, ans)
                 ELSE Returned(r2.L, log2, r1.resp.FunctionArn)

\* The provider's answers to the calls of one upsert_lambda: the answer to a
\* call that is not reached is left at "ok".
UpsertAnswers ==
    {a \in [code : {"ok", "fault"}, config : {"ok", "fault", "vanished"},
            create : {"ok", "fault"}] :
        /\ a.code = "fault" => a.config = "ok" /\ a.create = "ok"
        /\ a.config = "fault" => a.create = "ok"}

-----------------------------------------------------------------------------
(* add_invoke_permission *)

\* except ClientError: return on ResourceConflictException, re-raise otherwise.
AlreadyExistsNever(err) == FALSE
AlreadyExistsTest(err) == err = Conflict

AddInvokePermission(L, function_name, bucket_arn, statement_id, ans) ==
    LET r == AddPermission(L, function_name, statement_id, InvokeAction,
                           S3Principal, bucket_arn, ans)
        log == <<ApiCall("add_permission", r.err)>>
    IN  IF r.err = NoError THEN Returned(r.L, log, None)
        ELSE IF AlreadyExistsTest(r.err) THEN Returned(r.L, log, None)
        ELSE Raised(r.L, log, r.err)

-----------------------------------------------------------------------------
(* The object storage service.  N maps a bucket to its notification        *)
(* configuration, a dict that holds only its non-empty lists.              *)

ConfigKeys == {"LambdaFunctionConfigurations", "TopicConfigurations",
               "QueueConfigurations"}

S3ApiResult(N, err, resp) == [N |-> N, err |-> err, resp |-> resp]

GetBucketNotificationConfiguration(N, bucket, ans) ==
    IF ans = "fault" THEN S3ApiResult(N, OtherError, EmptyDict)
    ELSE S3ApiResult(N, NoError, N[bucket])

\* The provider names a rule that comes without an Id.
AssignId(rule) ==
    IF "Id" \in DOMAIN rule THEN rule
    ELSE DictPut(rule, "Id", "gen:" \o rule.LambdaFunctionArn)

\* The stored configuration is replaced by the one given, as a whole.
PutBucketNotificationConfiguration(N, bucket, config, ans) ==
    IF ans = "fault" THEN S3ApiResult(N, OtherError, EmptyDict)
    ELSE LET given == {k \in DOMAIN config : config[k] # <<>>}
             stored == [k \in given |->
                          IF k = "LambdaFunctionConfigurations"
                          THEN [i \in 1..Len(config[k]) |-> AssignId(config[k][i])]
                          ELSE config[k]]
         IN  S3ApiResult([N EXCEPT ![bucket] = stored], NoError, EmptyDict)

-----------------------------------------------------------------------------
(* configure_s3_notification *)

Filters(prefix, suffix) ==
    (IF Truthy(prefix) THEN <<[Name |-> "prefix", Value |-> prefix]>> ELSE <<>>)
    \o (IF Truthy(suffix) THEN <<[Name |-> "suffix", Value |-> suffix]>> ELSE <<>>)

LambdaConfig(lambda_arn, prefix, suffix) ==
    LET filters == Filters(prefix, suffix)
        base == [LambdaFunctionArn |-> lambda_arn, Events |-> ObjectCreated]
    IN  IF filters # <<>>
        THEN DictPut(base, "Filter", [Key |-> [FilterRules |-> filters]])
        ELSE base

\* [c for c in existing if c.get("LambdaFunctionArn") != lambda_arn]
KeepEveryRule(c, lambda_arn) == TRUE
KeepRule(c, lambda_arn) == DictGet(c, "LambdaFunctionArn", None) # lambda_arn

\* The NotificationConfiguration argument built from the configuration read.
NotificationRequest(cfg, lambda_arn, prefix, suffix) ==
    LET existing == DictGet(cfg, "LambdaFunctionConfigurations", <<>>)
        kept == SelectSeq(existing, LAMBDA c : KeepRule(c, lambda_arn))
    IN  [LambdaFunctionConfigurations |->
            Append(kept, LambdaConfig(lambda_arn, prefix, suffix))]

S3Returned(N, log) == [N |-> N, calls |-> log, outcome |-> "returned", error |-> NoError]
S3Raised(N, log, err) == [N |-> N, calls |-> log, outcome |-> "raised", error |-> err]

ConfigureS3Notification(N, bucket, lambda_arn, prefix, suffix, ans) ==
    LET r1 == GetBucketNotificationConfiguration(N, bucket, ans.get)
        log1 == <<ApiCall("get_bucket_notification_configuration", r1.err)>>
    IN  IF r1.err # NoError THEN S3Raised(r1.N, log1, r1.err)
        ELSE LET r2 == PutBucketNotificationConfiguration(r1.N, bucket,
                           NotificationRequest(r1.resp, lambda_arn, prefix, suffix),
                           ans.put)
                 log2 == Append(log1,
                            ApiCall("put_bucket_notification_configuration", r2.err))
             IN  IF r2.err # NoError THEN S3Raised(r2.N, log2, r2.err)
                 ELSE S3Returned(r2.N, log2)

NotifyAnswers == [get : {"ok", "fault"}, put : {"ok", "fault"}]

-----------------------------------------------------------------------------
(* main: env = {}; if args.sns_topic_arn: ...; if args.slack_webhook_url: ... *)

BuildEnv(sns_topic_arn, slack_webhook_url) ==
    LET e1 == IF Truthy(sns_topic_arn)
              THEN DictPut(EmptyDict, "SNS_TOPIC_ARN", sns_topic_arn)
              ELSE EmptyDict
    IN  IF Truthy(slack_webhook_url)
        THEN DictPut(e1, "SLACK_WEBHOOK_URL", slack_webhook_url)
        ELSE e1

Envs == {BuildEnv(s, w) : s \in SnsArgs, w \in SlackArgs}
Zips == {ZipBytes(p, DefaultArcname) : p \in DOMAIN FileSystem}

-----------------------------------------------------------------------------
(* Initial provider states *)

\* A function deployed earlier by other means.
OldFunction ==
    [Runtime |-> "python3.9", Role |-> "r1", Handler |-> "index.handler",
     Code |-> ("index.py" :> "c0"), Timeout |-> 3, MemorySize |-> 128,
     Variables |-> ("STAGE" :> "dev")]

InitFunctions == {EmptyDict, ("legacy" :> OldFunction), ("f1" :> OldFunction)}

NoCall == [op |-> "none"]

IdleMain ==
    /\ pc = "idle"
    /\ margs = EmptyDict
    /\ mloc = EmptyDict
    /\ out = [status |-> None, printed |-> <<>>]
    /\ pre = EmptyDict

IdleConc ==
    /\ cpc = EmptyDict
    /\ cargs = EmptyDict
    /\ ccfg = EmptyDict
    /\ corder = <<>>

mainVars == <<pc, margs, mloc, out, pre>>
concVars == <<cpc, cargs, ccfg, corder>>

-----------------------------------------------------------------------------
(* upsert_lambda called on its own *)

InitUpsert ==
    /\ functions \in InitFunctions
    /\ policy = [n \in DOMAIN functions |-> {}]
    /\ notif = [b \in Buckets |-> EmptyDict]
    /\ call = NoCall
    /\ calls = <<>>
    /\ IdleMain
    /\ IdleConc

UpsertCall ==
    \E fn \in FnNames, role \in Roles, zip \in Zips, env \in Envs,
       ans \in UpsertAnswers :
        LET r == UpsertLambda([functions |-> functions, policy |-> policy],
                              fn, role, zip, "us-east-1", env, ans)
        IN  /\ functions' = r.L.functions
            /\ policy' = r.L.policy
            /\ calls' = r.calls
            /\ call' = [op |-> "upsert_lambda", function_name |-> fn,
                        role_arn |-> role, zip_bytes |-> zip, env |-> env,
                        existed |-> fn \in DOMAIN functions,
                        again |-> /\ call.op = "upsert_lambda"
                                  /\ call.function_name = fn
                                  /\ call.outcome = "returned",
                        outcome |-> r.outcome, ret |-> r.ret, error |-> r.error]
            /\ UNCHANGED <<notif, mainVars, concVars>>

NextUpsert == UpsertCall

SpecUpsert == InitUpsert /\ [][NextUpsert]_vars

ExpectedFunction(role, zip, env) ==
    [Runtime |-> Runtime, Role |-> role, Handler |-> Handler, Code |-> zip,
     Timeout |-> Timeout, MemorySize |-> MemorySize, Variables |-> env]

NoFault(log) == \A i \in 1..Len(log) : log[i].err # OtherError
IsUpsert == call.op = "upsert_lambda"

\* C2: upsert_lambda for a function that does not exist: the update attempt
\* fails with ResourceNotFoundException, exactly one create_function call is
\* made, and (the provider raising no other error) the function then exists
\* with runtime python3.12, the fixed handler, the given role, timeout 30,
\* memory 256, the given code and the given environment variables, and the
\* call returns the function's reference.
C2_CreatesAbsentFunction ==
    (IsUpsert /\ ~call.existed) =>
        /\ calls[1].api = "update_function_code"
        /\ calls[1].err = NotFound => /\ Len(calls) = 2
                                      /\ calls[2].api = "create_function"
                                      /\ Count(calls, "create_function") = 1
        /\ NoFault(calls) =>
            /\ calls = <<ApiCall("update_function_code", NotFound),
                         ApiCall("create_function", NoError)>>
            /\ call.outcome = "returned"
            /\ call.ret = FunctionArn(call.function_name)
            /\ call.function_name \in DOMAIN functions
            /\ functions[call.function_name] =
                 ExpectedFunction(call.role_arn, call.zip_bytes, call.env)

C2_Witness ==
    /\ IsUpsert /\ ~call.existed /\ call.outcome = "returned"
    /\ call.env = BuildEnv("t1", "hook")
    /\ Count(calls, "create_function") = 1
    /\ functions[call.function_name].Variables = call.env

\* C3: upsert_lambda for a function that exists never gets
\* ResourceNotFoundException from update_function_code, makes a
\* create_function call only if the function is deleted before the
\* configuration update, and raises only an error the provider raised; when
\* the provider raises none it returns, having performed update_function_code
\* then update_function_configuration and no create_function, and the function
\* has the code and the configuration given in this call.
C3_UpdateEqualsArguments ==
    (IsUpsert /\ call.existed) =>
        /\ calls[1] \in {ApiCall("update_function_code", NoError),
                         ApiCall("update_function_code", OtherError)}
        /\ Count(calls, "create_function") > 0 =>
             calls[2] = ApiCall("update_function_configuration", NotFound)
        /\ call.outcome = "raised" => call.error = OtherError /\ ~NoFault(calls)
        /\ (\A i \in 1..Len(calls) : calls[i].err = NoError) =>
            /\ call.outcome = "returned"
            /\ ApiNames(calls) =
                 <<"update_function_code", "update_function_configuration">>
            /\ call.ret = FunctionArn(call.function_name)
            /\ call.function_name \in DOMAIN functions
            /\ functions[call.function_name] =
                 ExpectedFunction(call.role_arn, call.zip_bytes, call.env)

C3_Witness ==
    /\ IsUpsert /\ call.existed /\ call.again /\ call.outcome = "returned"
    /\ ApiNames(calls) = <<"update_function_code", "update_function_configuration">>
    /\ call.role_arn = "r2" /\ call.env = EmptyDict
    /\ call.zip_bytes = ZipBytes("alt.py", DefaultArcname)
    /\ functions[call.function_name] =
         ExpectedFunction("r2", ZipBytes("alt.py", DefaultArcname), EmptyDict)

\* C7: create_function is attempted only right after an update call that
\* failed with ResourceNotFoundException; any other error of the update
\* attempt, and any error of create_function, ends the call with that error
\* raised and no create_function call after it.
C7_CreateOnlyAfterNotFound ==
    IsUpsert =>
        /\ \A i \in 1..Len(calls) :
            calls[i].api = "create_function" =>
                /\ i > 1 /\ i = Len(calls)
                /\ calls[i-1].api \in {"update_function_code",
                                       "update_function_configuration"}
                /\ calls[i-1].err = NotFound
        /\ \A i \in 1..Len(calls) :
            calls[i].err \notin {NoError, NotFound} =>
                /\ i = Len(calls)
                /\ call.outcome = "raised"
                /\ call.error = calls[i].err
        /\ Count(calls, "create_function") <= 1

C7_Witness ==
    /\ IsUpsert /\ call.existed
    /\ calls = <<ApiCall("update_function_code", NoError),
                 ApiCall("update_function_configuration", OtherError)>>
    /\ call.outcome = "raised" /\ call.error = OtherError

-----------------------------------------------------------------------------
(* add_invoke_permission called on its own *)

PermFnNames == {"f1", "legacy", "absent"}
StatementIds == {DefaultStatementId, "Other"}

InitPerm ==
    /\ functions = ("f1" :> OldFunction) @@ ("legacy" :> OldFunction)
    /\ policy \in {[n \in DOMAIN functions |-> {}],
                   [n \in DOMAIN functions |->
                      {[Sid |-> "Api", Action |-> InvokeAction,
                        Principal |-> "apigateway.amazonaws.com",
                        SourceArn |-> "arn:aws:execute-api:x"]}]}
    /\ notif = [b \in Buckets |-> EmptyDict]
    /\ call = NoCall
    /\ calls = <<>>
    /\ IdleMain
    /\ IdleConc

PermCall ==
    \E fn \in PermFnNames, bucket \in Buckets, sid \in StatementIds,
       ans \in {"ok", "fault"} :
        LET r == AddInvokePermission([functions |-> functions, policy |-> policy],
                                     fn, BucketArn(bucket), sid, ans)
        IN  /\ functions' = r.L.functions
            /\ policy' = r.L.policy
            /\ calls' = r.calls
            /\ call' = [op |-> "add_invoke_permission", function_name |-> fn,
                        bucket_arn |-> BucketArn(bucket), statement_id |-> sid,
                        before |-> DictGet(policy, fn, {}),
                        again |-> /\ call.op = "add_invoke_permission"
                                  /\ call.function_name = fn
                                  /\ call.statement_id = sid
                                  /\ call.outcome = "returned",
                        outcome |-> r.outcome, error |-> r.error]
            /\ UNCHANGED <<notif, mainVars, concVars>>

NextPerm == PermCall

SpecPerm == InitPerm /\ [][NextPerm]_vars

IsPerm == call.op = "add_invoke_permission"

Grant(sid, bucket_arn) ==
    [Sid |-> sid, Action |-> InvokeAction, Principal |-> S3Principal,
     SourceArn |-> bucket_arn]

\* C4: add_invoke_permission raises only what the provider raises other than
\* ResourceConflictException: when the provider accepts the add, the call
\* returns and the statement is added; when the provider answers
\* ResourceConflictException, as it does on every later call with the same
\* function name and statement id, the call returns normally and the
\* function's policy is unchanged.
C4_RepeatedGrantReturns ==
    IsPerm =>
        /\ calls[1].err = NoError =>
            /\ call.outcome = "returned"
            /\ policy[call.function_name] =
                 call.before \cup {Grant(call.statement_id, call.bucket_arn)}
        /\ calls[1].err = Conflict =>
            /\ call.outcome = "returned"
            /\ policy[call.function_name] = call.before
        /\ call.outcome = "raised" => calls[1].err \in {NotFound, OtherError}
        /\ (call.again /\ calls[1].err # OtherError) =>
            /\ calls[1].err = Conflict
            /\ call.outcome = "returned"
            /\ policy[call.function_name] = call.before

C4_Witness ==
    /\ IsPerm /\ call.again
    /\ calls = <<ApiCall("add_permission", Conflict)>>
    /\ call.outcome = "returned"
    /\ Grant(call.statement_id, call.bucket_arn) \in policy[call.function_name]

\* C8 (as claimed): whenever add_invoke_permission returns normally, the
\* function's policy holds a statement with the given statement id granting
\* s3.amazonaws.com lambda:InvokeFunction with the given bucket as source.
C8_ReturnMeansGranted ==
    (IsPerm /\ call.outcome = "returned") =>
        Grant(call.statement_id, call.bucket_arn) \in policy[call.function_name]

-----------------------------------------------------------------------------
(* configure_s3_notification called on its own *)

MaxInitRules == 2

Arns == {FunctionArn("f1"), FunctionArn("legacy")}

\* Rules a bucket may hold before the first call.
RulePool ==
    {[Id |-> "old1", LambdaFunctionArn |-> FunctionArn("f1"),
      Events |-> ObjectCreated],
     [Id |-> "old2", LambdaFunctionArn |-> FunctionArn("f1"),
      Events |-> <<"s3:ObjectRemoved:*">>,
      Filter |-> [Key |-> [FilterRules |-> <<[Name |-> "prefix", Value |-> "logs/"]>>]]],
     [Id |-> "other", LambdaFunctionArn |-> "arn:aws:lambda:other",
      Events |-> ObjectCreated]}

NoRepeat(s) == \A i, j \in 1..Len(s) : i # j => s[i] # s[j]

InitRuleLists ==
    UNION {{s \in [1..n -> RulePool] : NoRepeat(s)} : n \in 0..MaxInitRules}

TopicRule == [Id |-> "t", TopicArn |-> "arn:aws:sns:topic",
              Events |-> ObjectCreated]
QueueRule == [Id |-> "q", QueueArn |-> "arn:aws:sqs:queue",
              Events |-> <<"s3:ObjectRemoved:*">>]

InitOtherKinds ==
    {EmptyDict, [TopicConfigurations |-> <<TopicRule>>],
     [TopicConfigurations |-> <<TopicRule>>, QueueConfigurations |-> <<QueueRule>>]}

InitConfigs ==
    {IF l = <<>> THEN o ELSE DictPut(o, "LambdaFunctionConfigurations", l) :
        l \in InitRuleLists, o \in InitOtherKinds}

InitNotif ==
    /\ functions = ("f1" :> OldFunction) @@ ("legacy" :> OldFunction)
    /\ policy = [n \in DOMAIN functions |-> {}]
    /\ \E c \in InitConfigs : notif = [b \in Buckets |-> IF b = "b1" THEN c ELSE EmptyDict]
    /\ call = NoCall
    /\ calls = <<>>
    /\ IdleMain
    /\ IdleConc

NotifyCall ==
    \E bucket \in {"b1"}, arn \in Arns, prefix \in Prefixes, suffix \in Suffixes,
       ans \in NotifyAnswers :
        LET r == ConfigureS3Notification(notif, bucket, arn, prefix, suffix, ans)
        IN  /\ ans.get = "fault" => ans.put = "ok"
            /\ notif' = r.N
            /\ calls' = r.calls
            /\ call' = [op |-> "configure_s3_notification", bucket |-> bucket,
                        lambda_arn |-> arn, prefix |-> prefix, suffix |-> suffix,
                        read |-> notif[bucket],
                        again |-> /\ call.op = "configure_s3_notification"
                                  /\ call.bucket = bucket
                                  /\ call.lambda_arn = arn
                                  /\ call.outcome = "returned",
                        outcome |-> r.outcome, error |-> r.error]
            /\ UNCHANGED <<functions, policy, mainVars, concVars>>

NextNotif == NotifyCall

SpecNotif == InitNotif /\ [][NextNotif]_vars

IsNotify == call.op = "configure_s3_notification"

LambdaRules(cfg) == DictGet(cfg, "LambdaFunctionConfigurations", <<>>)
Targeting(cfg, arn) ==
    {i \in 1..Len(LambdaRules(cfg)) : LambdaRules(cfg)[i].LambdaFunctionArn = arn}
OtherRules(cfg, arn) ==
    SelectSeq(LambdaRules(cfg), LAMBDA c : c.LambdaFunctionArn # arn)

\* C1: after configure_s3_notification returns, whatever rules the bucket held
\* before (none, one or several for the same function reference, rules for
\* other targets), and so after two or more calls in sequence with the same
\* function reference, the bucket holds exactly one rule for that reference,
\* and it carries the filters of the last call.
C1_OneRulePerTarget ==
    (IsNotify /\ call.outcome = "returned") =>
        LET cfg == notif[call.bucket]
            at == Targeting(cfg, call.lambda_arn)
        IN  /\ Cardinality(at) = 1
            /\ \A i \in at :
                /\ i = Len(LambdaRules(cfg))
                /\ DictDel(LambdaRules(cfg)[i], "Id") =
                     LambdaConfig(call.lambda_arn, call.prefix, call.suffix)

C1_Witness ==
    /\ IsNotify /\ call.again /\ call.outcome = "returned"
    /\ call.prefix = "in/" /\ call.suffix = None
    /\ Cardinality(Targeting(call.read, call.lambda_arn)) = 1
    /\ \E i \in Targeting(call.read, call.lambda_arn) :
         "Filter" \notin DOMAIN LambdaRules(call.read)[i]
    /\ OtherRules(notif[call.bucket], call.lambda_arn) # <<>>

\* C6 (as claimed): the configuration after the write holds every rule that
\* was read and does not target the given function reference, unchanged: the
\* rules for other functions and the rules of the other kinds (topic, queue).
C6_OtherRulesPreserved ==
    (IsNotify /\ call.outcome = "returned") =>
        LET cfg == notif[call.bucket]
        IN  /\ OtherRules(cfg, call.lambda_arn) = OtherRules(call.read, call.lambda_arn)
            /\ \A k \in ConfigKeys \ {"LambdaFunctionConfigurations"} :
                 DictGet(cfg, k, <<>>) = DictGet(call.read, k, <<>>)

-----------------------------------------------------------------------------
(* main: one run after another of the script *)

MainArgs ==
    [bucket : Buckets, function : FnNames, role_arn : {"r1"},
     region : {"us-east-1"}, prefix : {None, "in/"}, suffix : {None, ".csv"},
     sns_topic_arn : SnsArgs, slack_webhook_url : {None},
     file : {"lambda_function.py", "missing.py"}]

\* os.path.exists(args.file)
PathAlwaysExists(path) == TRUE
PathExists(path) == path \in DOMAIN FileSystem

\* An exception that leaves a step ends the run; otherwise the next line runs.
ContinueAlways(outcome, next) == next
AfterStep(outcome, next) == IF outcome = "returned" THEN next ELSE "crashed"

Step(name, outcome) == [step |-> name, outcome |-> outcome]
Traceback(outcome, o) ==
    IF outcome = "returned" THEN o
    ELSE [status |-> 1, printed |-> Append(o.printed, "Traceback")]

Provider == [functions |-> functions, policy |-> policy, notif |-> notif]

Init ==
    /\ functions \in {EmptyDict, ("f1" :> OldFunction)}
    /\ policy = [n \in DOMAIN functions |-> {}]
    /\ notif \in {[b \in Buckets |-> EmptyDict],
                  [b \in Buckets |->
                     [LambdaFunctionConfigurations |->
                        <<[Id |-> "other",
                           LambdaFunctionArn |-> "arn:aws:lambda:other",
                           Events |-> ObjectCreated]>>,
                      TopicConfigurations |-> <<TopicRule>>]]}
    /\ call = NoCall
    /\ calls = <<>>
    /\ IdleMain
    /\ IdleConc

\* Lines 97-111: parse the command line, create the session and the clients.
MainStart ==
    /\ pc \in {"idle", "done", "exit", "crashed"}
    /\ \E a \in MainArgs : margs' = a
    /\ pc' = "parsed"
    /\ mloc' = [steps |-> <<>>]
    /\ out' = [status |-> None, printed |-> <<>>]
    /\ pre' = Provider
    /\ calls' = <<>>
    /\ UNCHANGED <<functions, policy, notif, call, concVars>>

\* Lines 113-123: the handler file check, the archive, the environment.
\* zip_bytes raises FileNotFoundError for a path that is not there.
CheckAndPackage(a) ==
    IF ~PathExists(a.file)
    THEN [pc |-> "exit", mloc |-> [steps |-> <<>>],
          out |-> [status |-> 1, printed |-> <<"Missing " \o a.file>>]]
    ELSE IF a.file \notin DOMAIN FileSystem
    THEN [pc |-> "crashed", mloc |-> [steps |-> <<>>],
          out |-> [status |-> 1, printed |-> <<"Traceback">>]]
    ELSE [pc |-> "upsert",
          mloc |-> [steps |-> <<>>,
                    code_zip |-> ZipBytes(a.file, DefaultArcname),
                    env |-> BuildEnv(a.sns_topic_arn, a.slack_webhook_url)],
          out |-> [status |-> None, printed |-> <<>>]]

MainCheckFile ==
    /\ pc = "parsed"
    /\ LET r == CheckAndPackage(margs)
       IN  /\ pc' = r.pc
           /\ mloc' = r.mloc
           /\ out' = r.out
    /\ UNCHANGED <<functions, policy, notif, call, calls, margs, pre, concVars>>

\* Line 125.
MainUpsert ==
    /\ pc = "upsert"
    /\ \E ans \in UpsertAnswers :
        LET r == UpsertLambda([functions |-> functions, policy |-> policy],
                              margs.function, margs.role_arn, mloc.code_zip,
                              margs.region, mloc.env, ans)
        IN  /\ functions' = r.L.functions
            /\ policy' = r.L.policy
            /\ calls' = calls \o r.calls
            /\ mloc' = [mloc EXCEPT !.steps = Append(@, Step("upsert_lambda", r.outcome))]
                         @@ [lambda_arn |-> r.ret]
            /\ out' = Traceback(r.outcome, out)
            /\ pc' = AfterStep(r.outcome, "grant")
    /\ UNCHANGED <<notif, call, margs, pre, concVars>>

\* Line 127.
MainGrant ==
    /\ pc = "grant"
    /\ \E ans \in {"ok", "fault"} :
        LET r == AddInvokePermission([functions |-> functions, policy |-> policy],
                                     margs.function, BucketArn(margs.bucket),
                                     DefaultStatementId, ans)
        IN  /\ functions' = r.L.functions
            /\ policy' = r.L.policy
            /\ calls' = calls \o r.calls
            /\ mloc' = [mloc EXCEPT !.steps =
                            Append(@, Step("add_invoke_permission", r.outcome))]
            /\ out' = Traceback(r.outcome, out)
            /\ pc' = AfterStep(r.outcome, "notify")
    /\ UNCHANGED <<notif, call, margs, pre, concVars>>

\* Line 129.
MainNotify ==
    /\ pc = "notify"
    /\ \E ans \in NotifyAnswers :
        LET r == ConfigureS3Notification(notif, margs.bucket, mloc.lambda_arn,
                                         margs.prefix, margs.suffix, ans)
        IN  /\ ans.get = "fault" => ans.put = "ok"
            /\ notif' = r.N
            /\ calls' = calls \o r.calls
            /\ mloc' = [mloc EXCEPT !.steps =
                            Append(@, Step("configure_s3_notification", r.outcome))]
            /\ out' = Traceback(r.outcome, out)
            /\ pc' = AfterStep(r.outcome, "print")
    /\ UNCHANGED <<functions, policy, call, margs, pre, concVars>>

\* Lines 131-133.
MainPrint ==
    /\ pc = "print"
    /\ out' = [status |-> 0,
               printed |-> <<"Done.", "Lambda ARN: " \o mloc.lambda_arn,
                             "S3 bucket '" \o margs.bucket \o "' now triggers '"
                               \o margs.function \o "' on ObjectCreated events.">>]
    /\ pc' = "done"
    /\ UNCHANGED <<functions, policy, notif, call, calls, margs, mloc, pre, concVars>>

Next ==
    \/ MainStart
    \/ MainCheckFile
    \/ MainUpsert
    \/ MainGrant
    \/ MainNotify
    \/ MainPrint

Spec == Init /\ [][Next]_vars

StepNames == <<"upsert_lambda", "add_invoke_permission", "configure_s3_notification">>

\* The step of main an API call belongs to.
StepOf(api) ==
    IF api \in {"update_function_code", "update_function_configuration",
                "create_function"} THEN 1
    ELSE IF api = "add_permission" THEN 2
    ELSE 3

\* C5: a run whose handler file path does not exist ends with exit status 1
\* and the message naming the file, having issued no provider API call, and
\* the provider's state is as it was when the run started.
C5_MissingFileNoProviderCalls ==
    /\ (pc \notin {"idle", "parsed"} /\ ~(margs.file \in DOMAIN FileSystem)) =>
        /\ pc = "exit"
        /\ out = [status |-> 1, printed |-> <<"Missing " \o margs.file>>]
        /\ calls = <<>>
        /\ mloc.steps = <<>>
        /\ Provider = pre
    /\ pc = "exit" => ~(margs.file \in DOMAIN FileSystem)

C5_Witness ==
    /\ pc = "exit" /\ margs.file = "missing.py" /\ out.status = 1
    /\ "f1" \in DOMAIN functions /\ functions["f1"].Runtime = Runtime

\* C10: in a run the steps are function upsert, permission grant, trigger
\* registration, in that order and each at most once; a step that raises is
\* the last one, the run then ends without the success summary and with no
\* provider call of a later step (the put only after the upsert and the grant
\* returned), and what the completed steps did stays in place.
C10_StepsInOrderNoRollback ==
    pc \notin {"idle", "parsed"} =>
        LET steps == mloc.steps
            n == Len(steps)
        IN  /\ n <= 3
            /\ \A i \in 1..n : steps[i].step = StepNames[i]
            /\ \A i \in 1..n : i < n => steps[i].outcome = "returned"
            /\ \A i \in 1..Len(calls) : StepOf(calls[i].api) <= n
            /\ \A i, j \in 1..Len(calls) :
                 i < j => StepOf(calls[i].api) <= StepOf(calls[j].api)
            /\ \A api \in {"update_function_code", "update_function_configuration",
                           "create_function", "add_permission",
                           "get_bucket_notification_configuration",
                           "put_bucket_notification_configuration"} :
                 Count(calls, api) <= 1
            /\ Count(calls, "put_bucket_notification_configuration") = 1 =>
                 /\ n = 3
                 /\ steps[1].outcome = "returned" /\ steps[2].outcome = "returned"
            /\ pc = "crashed" <=> (n > 0 /\ steps[n].outcome = "raised")
            /\ pc = "crashed" =>
                 /\ out.status = 1
                 /\ \A i \in 1..Len(out.printed) : out.printed[i] # "Done."
                 /\ n >= 2 =>
                      /\ margs.function \in DOMAIN functions
                      /\ functions[margs.function].Code = mloc.code_zip
                      /\ functions[margs.function].Role = margs.role_arn
                 /\ n = 3 =>
                      \E st \in policy[margs.function] : st.Sid = DefaultStatementId
            /\ pc = "done" =>
                 /\ n = 3 /\ steps[3].outcome = "returned"
                 /\ out.status = 0 /\ out.printed[1] = "Done."

C10_Witness ==
    /\ pc = "crashed"
    /\ Len(mloc.steps) = 3
    /\ calls[Len(calls)] = ApiCall("put_bucket_notification_configuration", OtherError)
    /\ functions[margs.function].Code = mloc.code_zip
    /\ Grant(DefaultStatementId, BucketArn(margs.bucket)) \in policy[margs.function]
    /\ notif = pre.notif
    /\ functions # pre.functions

-----------------------------------------------------------------------------
(* Two runs of configure_s3_notification on one bucket, interleaved *)

Runs == {1, 2}
ConcBucket == "b1"
RunArn(p) == IF p = 1 THEN FunctionArn("f1") ELSE FunctionArn("legacy")
ConcFilters == [prefix : {None, "in/"}, suffix : {None, ".csv"}]

InitConc ==
    /\ functions = ("f1" :> OldFunction) @@ ("legacy" :> OldFunction)
    /\ policy = [n \in DOMAIN functions |-> {}]
    /\ \E c \in InitConfigs :
         notif = [b \in Buckets |-> IF b = ConcBucket THEN c ELSE EmptyDict]
    /\ call = NoCall
    /\ calls = <<>>
    /\ IdleMain
    /\ cpc = [p \in Runs |-> "start"]
    /\ cargs \in [Runs -> ConcFilters]
    /\ ccfg = [p \in Runs |-> EmptyDict]
    /\ corder = <<>>

\* The configuration a run's write is built from: the one it read (cfg).
FreshBasis(p) == notif[ConcBucket]
PutBasis(p) == ccfg[p]

\* Line 70.
ConcGet(p) ==
    /\ cpc[p] = "start"
    /\ LET r == GetBucketNotificationConfiguration(notif, ConcBucket, "ok")
       IN  ccfg' = [ccfg EXCEPT ![p] = r.resp]
    /\ cpc' = [cpc EXCEPT ![p] = "read"]
    /\ corder' = Append(corder, [run |-> p, api |-> "get"])
    /\ UNCHANGED <<functions, policy, notif, call, calls, cargs, mainVars>>

\* Lines 72-94.
ConcPut(p) ==
    /\ cpc[p] = "read"
    /\ LET r == PutBucketNotificationConfiguration(notif, ConcBucket,
                    NotificationRequest(PutBasis(p), RunArn(p), cargs[p].prefix,
                                        cargs[p].suffix), "ok")
       IN  notif' = r.N
    /\ cpc' = [cpc EXCEPT ![p] = "done"]
    /\ corder' = Append(corder, [run |-> p, api |-> "put"])
    /\ UNCHANGED <<functions, policy, call, calls, cargs, ccfg, mainVars>>

NextConc == \E p \in Runs : ConcGet(p) \/ ConcPut(p)

SpecConc == InitConc /\ [][NextConc]_vars

AllDone == \A p \in Runs : cpc[p] = "done"
AddedRule(p) == AssignId(LambdaConfig(RunArn(p), cargs[p].prefix, cargs[p].suffix))
Holds(cfg, rule) == \E i \in 1..Len(LambdaRules(cfg)) : LambdaRules(cfg)[i] = rule
BothReadFirst == Len(corder) >= 2 /\ corder[1].api = "get" /\ corder[2].api = "get"

\* C9: when both runs read before either writes, the final configuration is
\* the last writer's, built from what it read, and lacks the rule the other
\* run added; when one run ends before the other starts, both rules are there.
C9_LostUpdateWhenInterleaved ==
    AllDone =>
        LET last == corder[4].run
            first == CHOOSE p \in Runs : p # last
            final == notif[ConcBucket]
        IN  /\ Holds(final, AddedRule(last))
            /\ BothReadFirst =>
                /\ ~Holds(final, AddedRule(first))
                /\ LambdaRules(final) =
                     Append(OtherRules(ccfg[last], RunArn(last)), AddedRule(last))
                /\ ccfg[1] = ccfg[2]
            /\ ~BothReadFirst =>
                /\ Holds(final, AddedRule(first))
                /\ \A p \in Runs : Cardinality(Targeting(final, RunArn(p))) = 1

C9_Witness ==
    /\ AllDone /\ BothReadFirst
    /\ corder[3].run = 1 /\ corder[4].run = 2
    /\ Targeting(notif[ConcBucket], RunArn(1)) = {}
    /\ Holds(notif[ConcBucket], AddedRule(2))
    /\ Len(LambdaRules(notif[ConcBucket])) = 2

====
